---- MODULE Spec2Model ----
(***************************************************************************)
(* Model of create_test_resources.py: a one-shot provisioning script that  *)
(* ensures two Cloud Storage buckets, uploads a fixture to each, submits a *)
(* Retail catalog import and polls it, and then creates and loads two      *)
(* BigQuery tables through the bq command line tool.                       *)
(*                                                                         *)
(* The script's state is its position in the top-level flow (pc); all      *)
(* other state lives in the external services (buckets, blobs, the import  *)
(* operation, datasets, tables, load jobs).  log records, per run, the     *)
(* requests the script has issued, in order.                               *)
(***************************************************************************)
EXTENDS Integers, Sequences, FiniteSets, TLC

VARIABLES
    products_bucket_name,   \* os.environ['BUCKET_NAME']
    events_bucket_name,     \* os.environ['EVENTS_BUCKET_NAME']
    pc,                     \* the statement of the top-level flow to run next
    run,                    \* number of the current run of the script
    completed,              \* number of runs that reached the end of the script
    failedAt,               \* the step whose call raised, "" while none has
    polls,                  \* iterations of the poll loop with done() false
    opState,                \* the import operation: "none", "running", "done"
    buckets,                \* names of the buckets of the project
    blobs,                  \* objects held by the buckets
    datasets,               \* BigQuery datasets of the project
    tables,                 \* BigQuery tables, as <<dataset, table>>
    loads,                  \* bq load jobs that succeeded, oldest first
    log                     \* requests issued in the current run, oldest first

vars == <<products_bucket_name, events_bucket_name, pc, run, completed, failedAt,
          polls, opState, buckets, blobs, datasets, tables, loads, log>>

env == <<products_bucket_name, events_bucket_name>>
cloud == <<buckets, blobs, datasets, tables, loads>>

(***************************************************************************)
(* Bounds of the model.                                                    *)
(***************************************************************************)
MaxRuns == 2
MaxPolls == 2

BucketNames == {"bkt_a", "bkt_b"}
InitialDatasets == {"products", "user_events", "products_old"}
InitialTables == {<<"products", "products">>,
                  <<"user_events", "events">>, <<"user_events", "all_events">>}

(***************************************************************************)
(* Module-level names of the script.                                       *)
(***************************************************************************)
project_number == "1234"
project_id == "proj"

product_resource_file == "../resources/products.json"
events_source_file == "../resources/user_events.json"

product_dataset == "products"
product_table == "products"
product_schema == "../resources/product_schema.json"
events_dataset == "user_events"
events_table == "events"
events_schema == "../resources/events_schema.json"

(***************************************************************************)
(* Strings.  A string is a sequence of characters; Char(s, i) is its i-th  *)
(* character as a string of length one.                                    *)
(***************************************************************************)
Char(s, i) == SubSeq(s, i, i)

\* Index of the first occurrence of sub in s at or after i, 0 when there is none.
FindFrom(s, sub, i) ==
    LET hits == {j \in i..(Len(s) - Len(sub) + 1) : SubSeq(s, j, j + Len(sub) - 1) = sub}
    IN  IF hits = {} THEN 0 ELSE CHOOSE j \in hits : \A k \in hits : j <= k

\* Python's `sub in s` on two str values.
StrContains(s, sub) == FindFrom(s, sub, 1) # 0

\* The whole match, group(0), instead of the group.
ResourcesGroup0(s) == SubSeq(s, FindFrom(s, "resources/", 1), Len(s))

\* re.search('resources/(.*?)$', s).group(1) on a string without newlines:
\* the leftmost 'resources/' and, as the lazy group must reach the end of the
\* string, everything after it.
ResourcesGroup1(s) ==
    LET at == FindFrom(s, "resources/", 1)
    IN  SubSeq(s, at + Len("resources/"), Len(s))

object_name == ResourcesGroup1(product_resource_file)

default_catalog ==
    "projects/" \o project_number \o
    "/locations/global/catalogs/default_catalog/branches/default_branch"

(***************************************************************************)
(* Output of the bq tool and what the script makes of it.                  *)
(***************************************************************************)
RECURSIVE SeqOf(_)
\* The elements of a finite set in some fixed order.
SeqOf(S) ==
    IF S = {} THEN <<>>
    ELSE LET x == CHOOSE y \in S : TRUE IN <<x>> \o SeqOf(S \ {x})

RECURSIVE Rows(_, _)
\* One line of a listing per name: the name indented, then the rest of the row.
Rows(names, rest) ==
    IF names = <<>> THEN ""
    ELSE "  " \o Head(names) \o rest \o "\n" \o Rows(Tail(names), rest)

\* stdout of `bq ls --project_id <project>`: nothing for a project without
\* datasets, otherwise a header, a rule and one row per dataset.
DatasetListing(ds) ==
    IF ds = {} THEN ""
    ELSE "  datasetId  \n ----------- \n" \o Rows(SeqOf(ds), "  ")

\* stdout of `bq ls <project>:<dataset>`: nothing for a dataset without tables,
\* otherwise a header, a rule and one row per table.
TableListing(ts) ==
    IF ts = {} THEN ""
    ELSE "  tableId   Type   Labels  \n --------- ------ -------- \n"
         \o Rows(SeqOf(ts), "   TABLE  ")

RECURSIVE Escaped(_, _, _)
\* The body of repr() of a bytes value, for its bytes lo..hi: a newline is
\* written as backslash n, a backslash is doubled, printable bytes stay.  The
\* range is escaped half by half.
Escaped(b, lo, hi) ==
    IF lo > hi THEN ""
    ELSE IF lo = hi
         THEN LET c == Char(b, lo)
              IN  IF c = "\n" THEN "\\n" ELSE IF c = "\\" THEN "\\\\" ELSE c
         ELSE LET mid == (lo + hi) \div 2
              IN  Escaped(b, lo, mid) \o Escaped(b, mid + 1, hi)

\* str(b) of a bytes value b (holding no quote character).
StrOfBytes(b) == "b'" \o Escaped(b, 1, Len(b)) \o "'"

\* The characters the regular expression class \w matches in ASCII text.
WordChars ==
    {"a", "b", "c", "d", "e", "f", "g", "h", "i", "j", "k", "l", "m",
     "n", "o", "p", "q", "r", "s", "t", "u", "v", "w", "x", "y", "z",
     "A", "B", "C", "D", "E", "F", "G", "H", "I", "J", "K", "L", "M",
     "N", "O", "P", "Q", "R", "S", "T", "U", "V", "W", "X", "Y", "Z",
     "0", "1", "2", "3", "4", "5", "6", "7", "8", "9", "_"}

\* The elements of a finite set of numbers in increasing order.
Ascending(S) ==
    [k \in 1..Cardinality(S) |->
        CHOOSE i \in S : Cardinality({j \in S : j < i}) = k - 1]

\* re.split(r'\W+', s): the maximal runs of word characters, in order, with an
\* empty token in front when s is empty or starts with a separator and an
\* empty token at the end when s ends with a separator.
SplitNonWord(s) ==
    LET word == {i \in 1..Len(s) : Char(s, i) \in WordChars}
        first == Ascending({i \in word : i - 1 \notin word})
        last == Ascending({i \in word : i + 1 \notin word})
    IN  (IF 1 \in word THEN <<>> ELSE <<"">>)
        \o [k \in 1..Len(first) |-> SubSeq(s, first[k], last[k])]
        \o (IF s = "" \/ Len(s) \in word THEN <<>> ELSE <<"">>)

SeqRange(q) == {q[i] : i \in 1..Len(q)}

\* list_bq_datasets(): the word tokens of str() of the listing's bytes.
list_bq_datasets == SeqRange(SplitNonWord(StrOfBytes(DatasetListing(datasets))))

\* list_bq_tables(dataset): str() of the listing's bytes.
list_bq_tables(dataset) ==
    StrOfBytes(TableListing({t[2] : t \in {u \in tables : u[1] = dataset}}))

\* check_if_bucket_exists with a flag that is never set.
check_if_bucket_exists_never(new_bucket_name) == FALSE

\* check_if_bucket_exists(name): some listed bucket has that name.
check_if_bucket_exists(new_bucket_name) ==
    \E bucket \in buckets : bucket = new_bucket_name

\* The dataset test made on the listing's text instead of its tokens.
DatasetMissingInText(dataset_name) ==
    ~StrContains(StrOfBytes(DatasetListing(datasets)), dataset_name)

\* `dataset_name not in list_bq_datasets()`: list membership, an exact match.
DatasetMissing(dataset_name) == dataset_name \notin list_bq_datasets

\* `table_name not in list_bq_tables(dataset)`: str membership, a substring test.
TableMissing(dataset, table_name) == ~StrContains(list_bq_tables(dataset), table_name)

(***************************************************************************)
(* Requests.  A request names the call, its arguments and, for a bq        *)
(* subprocess, the command line handed to shlex.split; result is what the  *)
(* call gave back: "ok", "True", "False" or "raised".                      *)
(***************************************************************************)
Req(call, arg, cmd) == [call |-> call, arg |-> arg, cmd |-> cmd, result |-> "ok"]

\* get_import_products_gcs_request()
get_import_products_gcs_request ==
    LET gcs_bucket == "gs://" \o products_bucket_name
        gcs_errors_bucket == gcs_bucket \o "/error"
    IN  [parent |-> default_catalog,
         reconciliation_mode |-> "INCREMENTAL",
         input_uris |-> <<gcs_bucket \o "/" \o object_name>>,
         gcs_prefix |-> gcs_errors_bucket]

\* create_bucket(bucket_name): list the buckets, create the bucket if absent.
create_bucket(bucket_name) ==
    <<Req("list_buckets", <<>>, "")>> \o
    (IF check_if_bucket_exists(bucket_name) THEN <<>>
     ELSE <<Req("create_bucket", <<bucket_name, "STANDARD", "us">>, "")>>)

\* upload_data_to_bucket(bucket): always object_name from product_resource_file.
upload_data_to_bucket(bucket_name) ==
    <<Req("upload_from_filename", <<bucket_name, object_name, product_resource_file>>, "")>>

\* create_bq_dataset(dataset_name)
create_bq_dataset(dataset_name) ==
    <<Req("bq ls", <<>>, "bq ls --project_id " \o project_id)>> \o
    (IF DatasetMissing(dataset_name)
     THEN <<Req("bq mk -d", <<dataset_name>>,
                "bq --location=US mk -d --default_table_expiration 3600 --description \"This is my dataset.\" "
                \o project_id \o ":" \o dataset_name)>>
     ELSE <<>>)

\* create_bq_table(dataset, table_name, schema)
create_bq_table(dataset, table_name, schema) ==
    <<Req("bq ls", <<dataset>>, "bq ls " \o project_id \o ":" \o dataset)>> \o
    (IF TableMissing(dataset, table_name)
     THEN <<Req("bq mk --table", <<dataset, table_name>>,
                "bq mk --table " \o project_id \o ":" \o dataset \o "." \o table_name
                \o " " \o schema)>>
     ELSE <<>>)

\* The load guarded like the creation: a table that is there is only listed.
upload_data_to_bq_table_guarded(dataset, table_name, source, schema) ==
    IF <<dataset, table_name>> \in tables
    THEN <<Req("bq ls", <<dataset>>, "bq ls " \o project_id \o ":" \o dataset)>>
    ELSE <<Req("bq load", <<dataset, table_name, source>>,
               "bq load --source_format=NEWLINE_DELIMITED_JSON " \o project_id \o ":"
               \o dataset \o "." \o table_name \o " " \o source \o " " \o schema)>>

\* upload_data_to_bq_table(dataset, table_name, source, schema)
upload_data_to_bq_table(dataset, table_name, source, schema) ==
    <<Req("bq load", <<dataset, table_name, source>>,
          "bq load --source_format=NEWLINE_DELIMITED_JSON " \o project_id \o ":"
          \o dataset \o "." \o table_name \o " " \o source \o " " \o schema)>>

(***************************************************************************)
(* The top-level flow.                                                     *)
(***************************************************************************)
\* The flow with the import moved in front of the events upload.
FlowImportEarly ==
    <<"create_products_bucket", "upload_products", "import_submit", "import_poll",
      "create_events_bucket", "upload_events",
      "create_products_dataset", "create_products_table", "load_products",
      "create_events_dataset", "create_events_table", "load_events">>

Flow ==
    <<"create_products_bucket", "upload_products", "create_events_bucket",
      "upload_events", "import_submit", "import_poll",
      "create_products_dataset", "create_products_table", "load_products",
      "create_events_dataset", "create_events_table", "load_events">>

Steps == SeqRange(Flow)

StepIndex(p) == CHOOSE i \in 1..Len(Flow) : Flow[i] = p

\* The statement after p; the script ends after the last one.
NextPc(p) == IF StepIndex(p) = Len(Flow) THEN "finished" ELSE Flow[StepIndex(p) + 1]

\* The requests the statement at p issues in the current state, in order.
Calls(p) ==
    CASE p = "create_products_bucket" -> create_bucket(products_bucket_name)
      [] p = "upload_products" -> upload_data_to_bucket(products_bucket_name)
      [] p = "create_events_bucket" -> create_bucket(events_bucket_name)
      [] p = "upload_events" -> upload_data_to_bucket(events_bucket_name)
      [] p = "import_submit" ->
            <<Req("import_products", get_import_products_gcs_request, "")>>
      [] p = "import_poll" -> <<Req("done", <<>>, "")>>
      [] p = "create_products_dataset" -> create_bq_dataset(product_dataset)
      [] p = "create_products_table" ->
            create_bq_table(product_dataset, product_table, product_schema)
      [] p = "load_products" ->
            upload_data_to_bq_table(product_dataset, product_table,
                                    product_resource_file, product_schema)
      [] p = "create_events_dataset" -> create_bq_dataset(events_dataset)
      [] p = "create_events_table" ->
            create_bq_table(events_dataset, events_table, events_schema)
      [] p = "load_events" ->
            upload_data_to_bq_table(events_dataset, events_table,
                                    events_source_file, events_schema)

(***************************************************************************)
(* What a request that succeeds does to the external services.             *)
(***************************************************************************)
BucketsAfter(r) ==
    IF r.call = "create_bucket" THEN buckets \cup {r.arg[1]} ELSE buckets

\* An upload replaces the object of that name in the bucket.
BlobsAfter(r) ==
    IF r.call = "upload_from_filename"
    THEN {b \in blobs : ~(b.bucket = r.arg[1] /\ b.name = r.arg[2])}
         \cup {[bucket |-> r.arg[1], name |-> r.arg[2], file |-> r.arg[3]]}
    ELSE blobs

DatasetsAfter(r) ==
    IF r.call = "bq mk -d" THEN datasets \cup {r.arg[1]} ELSE datasets

\* bq load creates its destination table when the dataset has none of that name.
TablesAfter(r) ==
    IF r.call \in {"bq mk --table", "bq load"}
    THEN tables \cup {<<r.arg[1], r.arg[2]>>}
    ELSE tables

LoadsAfter(r) ==
    IF r.call = "bq load" THEN Append(loads, r.arg) ELSE loads

Last(q) == q[Len(q)]

\* In every statement only the last request changes anything; the ones before
\* it are listings.
RunCalls(calls) ==
    /\ log' = log \o calls
    /\ buckets' = BucketsAfter(Last(calls))
    /\ blobs' = BlobsAfter(Last(calls))
    /\ datasets' = DatasetsAfter(Last(calls))
    /\ tables' = TablesAfter(Last(calls))
    /\ loads' = LoadsAfter(Last(calls))

Advance ==
    /\ pc' = NextPc(pc)
    /\ completed' = IF NextPc(pc) = "finished" THEN completed + 1 ELSE completed

(***************************************************************************)
(* Actions.                                                                *)
(***************************************************************************)
Init ==
    /\ products_bucket_name \in BucketNames
    /\ events_bucket_name \in BucketNames
    /\ pc = Flow[1]
    /\ run = 1
    /\ completed = 0
    /\ failedAt = ""
    /\ polls = 0
    /\ opState = "none"
    /\ buckets \in SUBSET BucketNames
    /\ blobs = {}
    /\ datasets \in SUBSET InitialDatasets
    /\ tables \in SUBSET {t \in InitialTables : t[1] \in datasets}
    /\ loads = <<>>
    /\ log = <<>>

\* created_..._bucket = create_bucket(...), lines 192 and 196
CreateBucket ==
    /\ pc \in {"create_products_bucket", "create_events_bucket"}
    /\ RunCalls(Calls(pc))
    /\ Advance
    /\ UNCHANGED <<env, run, failedAt, polls, opState>>

\* upload_data_to_bucket(...), lines 193 and 197
UploadToBucket ==
    /\ pc \in {"upload_products", "upload_events"}
    /\ RunCalls(Calls(pc))
    /\ Advance
    /\ UNCHANGED <<env, run, failedAt, polls, opState>>

\* import_products_from_gcs() up to the poll loop, lines 115-119
ImportSubmit ==
    /\ pc = "import_submit"
    /\ RunCalls(Calls(pc))
    /\ opState' = "running"
    /\ polls' = 0
    /\ Advance
    /\ UNCHANGED <<env, run, failedAt>>

\* The loop condition with its sense lost: the loop body never runs.
LoopContinuesNever(done) == FALSE

\* The loop condition with a limit on the number of iterations.
LoopContinuesWithTimeout(done) == ~done /\ polls < 1

\* `while not gcs_operation.done()`
LoopContinues(done) == ~done

\* One evaluation of the loop condition: either sleep and stay in the loop, or
\* leave it, report the counts and return (lines 121-136).
ImportPoll ==
    /\ pc = "import_poll"
    /\ LET done == (opState = "done")
           r == [Req("done", <<>>, "") EXCEPT !.result = IF done THEN "True" ELSE "False"]
       IN  IF LoopContinues(done)
           THEN /\ log' = IF log # <<>> /\ Last(log) = r THEN log ELSE Append(log, r)
                /\ polls' = IF polls < MaxPolls THEN polls + 1 ELSE polls
                /\ UNCHANGED <<pc, completed>>
           ELSE /\ log' = Append(log, r)
                /\ Advance
                /\ UNCHANGED polls
    /\ UNCHANGED <<env, run, failedAt, opState, cloud>>

\* create_bq_dataset(...), lines 203 and 209
CreateDataset ==
    /\ pc \in {"create_products_dataset", "create_events_dataset"}
    /\ RunCalls(Calls(pc))
    /\ Advance
    /\ UNCHANGED <<env, run, failedAt, polls, opState>>

\* create_bq_table(...), lines 204 and 210
CreateTable ==
    /\ pc \in {"create_products_table", "create_events_table"}
    /\ RunCalls(Calls(pc))
    /\ Advance
    /\ UNCHANGED <<env, run, failedAt, polls, opState>>

\* upload_data_to_bq_table(...), lines 205 and 211
LoadTable ==
    /\ pc \in {"load_products", "load_events"}
    /\ RunCalls(Calls(pc))
    /\ Advance
    /\ UNCHANGED <<env, run, failedAt, polls, opState>>

\* The fault caught and the flow carried on with the next statement.
FaultSwallowed ==
    /\ pc \in Steps
    /\ \E k \in 1..Len(Calls(pc)) :
          log' = log \o SubSeq(Calls(pc), 1, k - 1)
                     \o <<[Calls(pc)[k] EXCEPT !.result = "raised"]>>
    /\ Advance
    /\ UNCHANGED <<env, run, failedAt, polls, opState, cloud>>

\* A call of the statement at pc raises: the requests before it were issued,
\* the one that raised changed nothing, and the uncaught fault ends the script.
Fault ==
    /\ pc \in Steps
    /\ \E k \in 1..Len(Calls(pc)) :
          log' = log \o SubSeq(Calls(pc), 1, k - 1)
                     \o <<[Calls(pc)[k] EXCEPT !.result = "raised"]>>
    /\ failedAt' = pc
    /\ pc' = "aborted"
    /\ UNCHANGED <<env, run, completed, polls, opState, cloud>>

\* The Retail service finishes the import operation.
OperationCompletes ==
    /\ opState = "running"
    /\ opState' = "done"
    /\ UNCHANGED <<env, pc, run, completed, failedAt, polls, cloud, log>>

\* The script is started again against the same project.
Rerun ==
    /\ pc \in {"finished", "aborted"}
    /\ run < MaxRuns
    /\ run' = run + 1
    /\ pc' = Flow[1]
    /\ failedAt' = ""
    /\ polls' = 0
    /\ opState' = "none"
    /\ log' = <<>>
    /\ UNCHANGED <<env, completed, cloud>>

Next ==
    \/ CreateBucket
    \/ UploadToBucket
    \/ ImportSubmit
    \/ ImportPoll
    \/ CreateDataset
    \/ CreateTable
    \/ LoadTable
    \/ Fault
    \/ OperationCompletes
    \/ Rerun

Spec == Init /\ [][Next]_vars

\* The interpreter keeps executing the script: a statement that can run does.
FairSpec == Spec /\ WF_vars(ImportPoll)

(***************************************************************************)
(* Vocabulary of the properties.                                           *)
(***************************************************************************)
Idx == 1..Len(log)

\* Positions of the log holding a call of that name that returned.
Returned(call) == {i \in Idx : log[i].call = call /\ log[i].result # "raised"}

\* The object of a request: a bucket, a dataset, or nothing.
Target(r) ==
    IF r.call \in {"list_buckets", "import_products", "done"} THEN ""
    ELSE IF r.arg = <<>> THEN "" ELSE r.arg[1]

Slot(call, target, result, opt) ==
    [call |-> call, target |-> target, result |-> result, opt |-> opt]

\* The requests of one run in their fixed order; opt marks the ones a run may
\* go without (a create of what exists, a poll that found the operation running).
Order ==
    <<Slot("list_buckets", "", "ok", FALSE),
      Slot("create_bucket", products_bucket_name, "ok", TRUE),
      Slot("upload_from_filename", products_bucket_name, "ok", FALSE),
      Slot("list_buckets", "", "ok", FALSE),
      Slot("create_bucket", events_bucket_name, "ok", TRUE),
      Slot("upload_from_filename", events_bucket_name, "ok", FALSE),
      Slot("import_products", "", "ok", FALSE),
      Slot("done", "", "False", TRUE),
      Slot("done", "", "True", FALSE),
      Slot("bq ls", "", "ok", FALSE),
      Slot("bq mk -d", product_dataset, "ok", TRUE),
      Slot("bq ls", product_dataset, "ok", FALSE),
      Slot("bq mk --table", product_dataset, "ok", TRUE),
      Slot("bq load", product_dataset, "ok", FALSE),
      Slot("bq ls", "", "ok", FALSE),
      Slot("bq mk -d", events_dataset, "ok", TRUE),
      Slot("bq ls", events_dataset, "ok", FALSE),
      Slot("bq mk --table", events_dataset, "ok", TRUE),
      Slot("bq load", events_dataset, "ok", FALSE)>>

Fits(r, slot) ==
    /\ r.call = slot.call
    /\ Target(r) = slot.target
    /\ r.result \in {slot.result, "raised"}

RECURSIVE InOrder(_, _, _)
\* The log from position i on follows Order from slot j on; whole asks that no
\* slot other than an optional one is left over.
InOrder(i, j, whole) ==
    IF i > Len(log)
    THEN (~whole) \/ \A k \in j..Len(Order) : Order[k].opt
    ELSE /\ j <= Len(Order)
         /\ \/ Fits(log[i], Order[j]) /\ InOrder(i + 1, j + 1, whole)
            \/ Order[j].opt /\ InOrder(i, j + 1, whole)

IsBq(r) == r.call \in {"bq ls", "bq mk -d", "bq mk --table", "bq load"}

HasBlob(bucket, name, file) ==
    [bucket |-> bucket, name |-> name, file |-> file] \in blobs

\* The requests a step has added to the log.
Added == SubSeq(log', Len(log) + 1, Len(log'))

Stepped == pc \in Steps /\ pc' = NextPc(pc)

(***************************************************************************)
(* C1.  In every run the requests are issued in one fixed order: products  *)
(* bucket, its upload, events bucket, its upload, the import and its       *)
(* polls, then dataset, table and load for products and afterwards for     *)
(* events.  No bq command is issued before the import has reported done,   *)
(* and the import is not submitted before both uploads have returned.      *)
(***************************************************************************)
C1_FixedOrder ==
    /\ InOrder(1, 1, pc = "finished")
    /\ \A i \in Idx : IsBq(log[i]) =>
          \E j \in 1..(i - 1) : log[j].call = "done" /\ log[j].result = "True"
    /\ \A i \in Idx : log[i].call = "import_products" =>
          Cardinality({j \in Returned("upload_from_filename") : j < i}) = 2

C1_Witness ==
    /\ pc = "finished"
    /\ Returned("create_bucket") # {}
    /\ Returned("bq mk -d") # {}
    /\ Returned("bq mk --table") # {}

(***************************************************************************)
(* C2.  Bucket creation is create-if-not-exists: create_bucket issues a    *)
(* create request exactly when the name is not among the project's         *)
(* buckets, on return the bucket exists and no other bucket has changed;   *)
(* two calls with the same name issue at most one create request and the   *)
(* second leaves the set of buckets as the first left it.                  *)
(***************************************************************************)
BucketOf(p) ==
    IF p = "create_products_bucket" THEN products_bucket_name ELSE events_bucket_name

C2_Step ==
    (Stepped /\ pc \in {"create_products_bucket", "create_events_bucket"}) =>
        LET name == BucketOf(pc)
            creates == {i \in 1..Len(Added) : Added[i].call = "create_bucket"}
        IN  /\ (creates # {}) <=> (name \notin buckets)
            /\ Cardinality(creates) <= 1
            /\ \A i \in creates : Added[i].arg[1] = name
            /\ buckets' = buckets \cup {name}
            /\ (pc = "create_events_bucket" /\ events_bucket_name = products_bucket_name)
                  => (creates = {} /\ buckets' = buckets)

C2_AtMostOnce ==
    \A name \in BucketNames :
        Cardinality({i \in Returned("create_bucket") : log[i].arg[1] = name}) <= 1

C2_CreateIfNotExists == [](C2_AtMostOnce) /\ [][C2_Step]_vars

C2_Witness ==
    /\ products_bucket_name = events_bucket_name
    /\ pc = "upload_events"
    /\ Cardinality(Returned("create_bucket")) = 1
    /\ Cardinality(Returned("list_buckets")) = 2

(***************************************************************************)
(* C3.  After the two upload steps have completed, the products bucket     *)
(* holds the products.json fixture and the events bucket holds the         *)
(* user_events.json fixture.                                               *)
(***************************************************************************)
C3_TwoFixtures ==
    Cardinality(Returned("upload_from_filename")) = 2 =>
        /\ HasBlob(products_bucket_name, "products.json", product_resource_file)
        /\ HasBlob(events_bucket_name, "user_events.json", events_source_file)

(***************************************************************************)
(* C4.  The import is polled until completion: the script is never past    *)
(* the poll loop (no completion reported, no bq command issued) while the  *)
(* operation is not done, and once the operation is done the script        *)
(* leaves the loop: the next poll reports done and import_products_from_gcs*)
(* returns, or the poll raises before reporting anything and ends the      *)
(* script.                                                                 *)
(***************************************************************************)
PastLoop ==
    \/ pc = "finished"
    \/ pc \in Steps /\ StepIndex(pc) > StepIndex("import_poll")
    \/ pc = "aborted" /\ StepIndex(failedAt) > StepIndex("import_poll")

C4_NotPastWhileRunning ==
    (PastLoop \/ \E i \in Idx : IsBq(log[i]) \/ (log[i].call = "done" /\ log[i].result = "True"))
        => opState = "done"

C4_LeavesLoop ==
    (pc = "import_poll" /\ opState = "done")
        ~> \/ pc = NextPc("import_poll")
           \/ pc = "aborted" /\ failedAt = "import_poll"

C4_PolledUntilCompletion == [](C4_NotPastWhileRunning) /\ C4_LeavesLoop

C4_Witness ==
    /\ pc = NextPc("import_poll")
    /\ polls > 0
    /\ opState = "done"

(***************************************************************************)
(* C5.  The poll loop has no timeout and no cancellation: while the        *)
(* operation is not done the script can leave the loop only by a call      *)
(* that raises, another iteration is possible after any number of polls,   *)
(* and a run submits exactly one import operation.                         *)
(***************************************************************************)
C5_OnlyFaultLeaves ==
    (pc = "import_poll" /\ opState # "done" /\ pc' # pc)
        => (pc' = "aborted" /\ failedAt' = "import_poll")

C5_NoTimeout ==
    (pc = "import_poll" /\ opState # "done") => ENABLED (ImportPoll /\ pc' = pc)

C5_OneSubmit ==
    /\ Cardinality({i \in Idx : log[i].call = "import_products"}) <= 1
    /\ pc = "import_poll" => Cardinality(Returned("import_products")) = 1
    /\ opState # "none" <=> Returned("import_products") # {}

C5_PollsForever == [](C5_NoTimeout /\ C5_OneSubmit) /\ [][C5_OnlyFaultLeaves]_vars

C5_Witness ==
    /\ pc = "import_poll"
    /\ polls = MaxPolls
    /\ opState = "running"

(***************************************************************************)
(* C6.  A failure is fatal and never retried: the call that raises ends    *)
(* the script at that step, it is the last request of the run, no later    *)
(* step is executed, and what the earlier steps did to the external        *)
(* services stays as it was (no rollback).                                 *)
(***************************************************************************)
Raised == {i \in Idx : log[i].result = "raised"}

C6_RaisedIsLast ==
    /\ Raised # {} <=> pc = "aborted"
    /\ Raised \subseteq {Len(log)}
    /\ pc = "aborted" => (failedAt \in Steps /\ Last(log) \in
          {[Calls(failedAt)[k] EXCEPT !.result = "raised"] : k \in 1..Len(Calls(failedAt))})

C6_FaultStep ==
    (pc # "aborted" /\ pc' = "aborted") =>
        /\ failedAt' = pc
        /\ UNCHANGED cloud
        /\ SubSeq(log', 1, Len(log)) = log

C6_NothingAfter ==
    (pc = "aborted" /\ run' = run) => UNCHANGED <<pc, failedAt, cloud, log>>

C6_FailureIsFatal == [](C6_RaisedIsLast) /\ [][C6_FaultStep /\ C6_NothingAfter]_vars

C6_Witness ==
    /\ pc = "aborted"
    /\ failedAt = "create_events_dataset"
    /\ Last(log).call = "bq mk -d"
    /\ product_dataset \in datasets
    /\ loads # <<>>

(***************************************************************************)
(* C7.  Table creation is create-if-not-exists: when create_bq_table has   *)
(* returned, a table of exactly that name exists in the dataset, whatever  *)
(* other tables the dataset holds.                                         *)
(***************************************************************************)
C7_TableCreateIfNotExists ==
    /\ pc = "load_products" => <<product_dataset, product_table>> \in tables
    /\ pc = "load_events" => <<events_dataset, events_table>> \in tables

(***************************************************************************)
(* C8.  Dataset creation is create-if-not-exists: create_bq_dataset issues *)
(* `bq mk -d` exactly when the project has no dataset of that name, the    *)
(* test being an exact match of the name against the word tokens of the    *)
(* listing; once a run has completed, a later call issues no mk.           *)
(***************************************************************************)
DatasetOf(p) ==
    IF p = "create_products_dataset" THEN product_dataset ELSE events_dataset

C8_Step ==
    (Stepped /\ pc \in {"create_products_dataset", "create_events_dataset"}) =>
        LET name == DatasetOf(pc)
            mks == {i \in 1..Len(Added) : Added[i].call = "bq mk -d"}
        IN  /\ (mks # {}) <=> (name \notin datasets)
            /\ (mks # {}) <=> (name \notin list_bq_datasets)
            /\ Cardinality(mks) <= 1
            /\ \A i \in mks : Added[i].arg = <<name>>
            /\ datasets' = datasets \cup {name}

\* A run before the current one reached the end of the script.
EarlierRunCompleted == IF pc = "finished" THEN completed >= 2 ELSE completed >= 1

C8_SecondCall == EarlierRunCompleted => Returned("bq mk -d") = {}

C8_DatasetCreateIfNotExists == [](C8_SecondCall) /\ [][C8_Step]_vars

C8_Witness ==
    /\ "products_old" \in datasets
    /\ pc = "create_products_table"
    /\ \E i \in Returned("bq mk -d") : log[i].arg = <<product_dataset>>

(***************************************************************************)
(* C9.  The import request reads what the script uploaded: it has exactly  *)
(* one input URI, gs://<BUCKET_NAME>/products.json, an object of that name *)
(* was uploaded to the products bucket earlier in the run and is there     *)
(* when the import is submitted; the error prefix is                       *)
(* gs://<BUCKET_NAME>/error and the reconciliation mode is INCREMENTAL.    *)
(***************************************************************************)
C9_ImportReadsUpload ==
    \A i \in Idx : log[i].call = "import_products" =>
        LET request == log[i].arg
        IN  /\ request.input_uris = <<"gs://" \o products_bucket_name \o "/products.json">>
            /\ request.gcs_prefix = "gs://" \o products_bucket_name \o "/error"
            /\ request.reconciliation_mode = "INCREMENTAL"
            /\ \E b \in blobs : b.bucket = products_bucket_name /\ b.name = "products.json"
            /\ \E j \in Returned("upload_from_filename") :
                  /\ j < i
                  /\ log[j].arg[1] = products_bucket_name
                  /\ log[j].arg[2] = "products.json"

C9_Witness ==
    /\ pc = "import_poll"
    /\ products_bucket_name # events_bucket_name
    /\ Returned("import_products") # {}

(***************************************************************************)
(* C10.  The bulk load is unguarded: a run that reaches the end has issued *)
(* exactly one bq load per table, each after the dataset and table steps   *)
(* of that table, whether the table existed or not; a complete run after   *)
(* a complete run creates no bucket, dataset or table and loads each       *)
(* fixture into its table once more.                                       *)
(***************************************************************************)
LoadsOf(dataset, table_name) ==
    {i \in Returned("bq load") : log[i].arg[1] = dataset /\ log[i].arg[2] = table_name}

LoadedAfterEnsure(dataset, table_name, fixture) ==
    /\ Cardinality(LoadsOf(dataset, table_name)) = 1
    /\ \A i \in LoadsOf(dataset, table_name) :
          /\ i >= 3
          /\ log[i].arg[3] = fixture
          /\ log[i - 1].call \in {"bq ls", "bq mk --table"}
          /\ \E j \in 1..(i - 1) : log[j].call = "bq ls" /\ log[j].arg = <<dataset>>
          /\ \E j \in 1..(i - 1) : log[j].call = "bq ls" /\ log[j].arg = <<>>

JobsOn(dataset, table_name, fixture) ==
    Cardinality({i \in 1..Len(loads) : loads[i] = <<dataset, table_name, fixture>>})

C10_EveryRunLoads ==
    pc = "finished" =>
        /\ LoadedAfterEnsure(product_dataset, product_table, product_resource_file)
        /\ LoadedAfterEnsure(events_dataset, events_table, events_source_file)
        /\ JobsOn(product_dataset, product_table, product_resource_file) >= completed
        /\ JobsOn(events_dataset, events_table, events_source_file) >= completed
        /\ EarlierRunCompleted =>
              /\ Returned("create_bucket") = {}
              /\ Returned("bq mk -d") = {}
              /\ Returned("bq mk --table") = {}

C10_NothingNew == completed >= 1 => UNCHANGED <<buckets, datasets, tables>>

C10_UnguardedLoad == [](C10_EveryRunLoads) /\ [][C10_NothingNew]_vars

C10_Witness ==
    /\ pc = "finished"
    /\ completed = 2
    /\ JobsOn(product_dataset, product_table, product_resource_file) = 2
    /\ JobsOn(events_dataset, events_table, events_source_file) = 2

====
